---- MODULE Spec2Model ----
(***************************************************************************)
(* Key-value storage engine (modules/database.js), its codec helpers       *)
(* (utils/index.js) and the host wiring (service.js).                      *)
(*                                                                         *)
(* Text is a sequence of one-character strings, so that the delimiters     *)
(* ";;" and ":" are found, split and replaced the way the JavaScript       *)
(* string methods do it.  A JavaScript value is a record [t, s]: t is its  *)
(* type ("num", "str", "other") and s its text (the digits of a number,    *)
(* the characters of a string).                                            *)
(***************************************************************************)
EXTENDS Integers, Sequences, FiniteSets

\* ------------------------------------------------------------------ text

Num(s) == [t |-> "num", s |-> s]
Str(s) == [t |-> "str", s |-> s]
\* a value that is neither a string nor a number (an object, null, a boolean)
Other == [t |-> "other", s |-> <<>>]

\* this.delimeterRecord, this.delimeterKeyValue
delimeterRecord == <<";", ";">>
delimeterKeyValue == <<":">>

\* s.substring(from - 1): the suffix of s that starts at position from
Drop(s, from) == SubSeq(s, from, Len(s))

\* d occurs in s at position i
OccursAt(s, d, i) == i >= 1 /\ i + Len(d) - 1 <= Len(s) /\ SubSeq(s, i, i + Len(d) - 1) = d

\* s.indexOf(d) + 1: the first position of d in s, 0 when there is none
IndexOf(s, d) ==
    IF \E i \in 1..Len(s) : OccursAt(s, d, i)
    THEN CHOOSE i \in 1..Len(s) : OccursAt(s, d, i) /\ \A j \in 1..(i - 1) : ~OccursAt(s, d, j)
    ELSE 0

\* s.includes(d)
Includes(s, d) == IndexOf(s, d) # 0

\* s.split(d) for a non-empty d: always at least one piece
RECURSIVE Split(_, _)
Split(s, d) ==
    LET i == IndexOf(s, d) IN
    IF i = 0 THEN <<s>>
    ELSE <<SubSeq(s, 1, i - 1)>> \o Split(Drop(s, i + Len(d)), d)

\* s.replace(d, ''): the first occurrence of d removed ('' matches at 0)
RemoveFirst(s, d) ==
    LET i == IndexOf(s, d) IN
    IF Len(d) = 0 \/ i = 0 THEN s
    ELSE SubSeq(s, 1, i - 1) \o Drop(s, i + Len(d))

\* ------------------------------------------------------------------ JSON

\* the characters JSON.stringify escapes with a backslash, of those used here
NeedsEscape(c) == c \in {"\"", "\\"}

RECURSIVE EscapeChars(_)
EscapeChars(s) ==
    IF s = <<>> THEN <<>>
    ELSE (IF NeedsEscape(Head(s)) THEN <<"\\", Head(s)>> ELSE <<Head(s)>>)
         \o EscapeChars(Tail(s))

\* the body of a JSON string literal: plain characters and \" \\ escapes
RECURSIVE ValidBody(_)
ValidBody(s) ==
    IF s = <<>> THEN TRUE
    ELSE IF Head(s) = "\\" THEN Len(s) >= 2 /\ NeedsEscape(s[2]) /\ ValidBody(Drop(s, 3))
    ELSE Head(s) # "\"" /\ ValidBody(Tail(s))

RECURSIVE UnescapeChars(_)
UnescapeChars(s) ==
    IF s = <<>> THEN <<>>
    ELSE IF Head(s) = "\\" THEN <<s[2]>> \o UnescapeChars(Drop(s, 3))
    ELSE <<Head(s)>> \o UnescapeChars(Tail(s))

Digits == {"1", "2"}

\* a JSON number, of the digits used here (no leading zero, sign or fraction)
IsNumberText(s) == s # <<>> /\ \A i \in 1..Len(s) : s[i] \in Digits

\* a JSON string literal
IsStringText(s) ==
    Len(s) >= 2 /\ s[1] = "\"" /\ s[Len(s)] = "\"" /\ ValidBody(SubSeq(s, 2, Len(s) - 1))

\* JSON.parse(s) does not throw
JSONValid(s) == IsNumberText(s) \/ IsStringText(s)

\* JSON.parse(s), for a valid s
JSONParse(s) ==
    IF IsNumberText(s) THEN Num(s) ELSE Str(UnescapeChars(SubSeq(s, 2, Len(s) - 1)))

\* JSON.stringify(v); an object value is the empty object
JSONStringify(v) ==
    CASE v.t = "num" -> v.s
      [] v.t = "str" -> <<"\"">> \o EscapeChars(v.s) \o <<"\"">>
      [] OTHER -> <<"{", "}">>

\* String(v), the conversion JSON.parse and a template literal apply
StringOf(v) ==
    CASE v.t \in {"num", "str"} -> v.s
      [] OTHER -> <<"[", "o", "]">>

\* utils.serialize: JSON.stringify never throws on the values used here
serialize(v) == JSONStringify(v)

\* utils.deSerialize: JSON.parse of the value's string form, the value itself on failure
deSerialize(v) == IF JSONValid(StringOf(v)) THEN JSONParse(StringOf(v)) ELSE v

\* ----------------------------------------------------------------- codec

Rec(k, v) == [key |-> k, value |-> v]

\* Database._prepareDataForFlush
RECURSIVE _prepareDataForFlush(_)
_prepareDataForFlush(recs) ==
    IF recs = <<>> THEN <<>>
    ELSE LET n == Len(recs) IN
         _prepareDataForFlush(SubSeq(recs, 1, n - 1))
         \o delimeterRecord \o recs[n].key \o <<":">> \o serialize(recs[n].value)

\* Database._getKey
_getKey(str) == Head(Split(str, delimeterKeyValue))

\* Database._getValue
_getValue(str, key) == RemoveFirst(str, key \o delimeterKeyValue)

\* the record _parseLogFile maps one piece of the file to
ParsePiece(str) ==
    LET key == _getKey(str) IN Rec(key, deSerialize(Str(_getValue(str, key))))

\* the filter of _parseLogFile
KeepPiece(r) == r.key # <<>> /\ r.value # Str(<<>>)

RECURSIVE SelectRecs(_)
SelectRecs(recs) ==
    IF recs = <<>> THEN <<>>
    ELSE (IF KeepPiece(Head(recs)) THEN <<Head(recs)>> ELSE <<>>) \o SelectRecs(Tail(recs))

\* Database._parseLogFile
_parseLogFile(text) ==
    LET pieces == Split(text, delimeterRecord) IN
    SelectRecs([i \in 1..Len(pieces) |-> ParsePiece(pieces[i])])

\* ------------------------------------------------------------ bounds

\* calls of the engine that can be in progress at once, and calls callers
\* make in one run (the timer's and the exit handler's not counted), when
\* calls overlap
MaxProcs == 3
MaxCalls == 4

\* calls callers make in one run when each call is awaited before the next
MaxSeqCalls == 3

\* what the storage directory can hold when the engine starts: the content of
\* 0001.log (empty when there is none) and of the other files
InitDirs ==
    { [log |-> <<>>, others |-> <<>>],
      [log |-> _prepareDataForFlush(<<Rec(<<"a">>, Num(<<"1">>))>>), others |-> <<>>],
      [log |-> _prepareDataForFlush(<<Rec(<<"a">>, Num(<<"1">>))>>),
       others |-> <<_prepareDataForFlush(<<Rec(<<"a">>, Num(<<"2">>))>>)>>] }

\* Callers whose calls overlap: few keys and values
OverlappingCallers ==
    [keys |-> {Str(<<"a">>)}, values |-> {Num(<<"1">>)},
     procs |-> MaxProcs, parallel |-> MaxProcs, calls |-> MaxCalls, host |-> FALSE, endless |-> FALSE]

\* Callers that await each call: more keys and values
AwaitingCallers ==
    [keys |-> {Str(<<"a">>), Str(<<"b">>)},
     values |-> {Num(<<"1">>), Str(<<"1">>), Str(<<>>)},
     procs |-> 2, parallel |-> 1, calls |-> MaxSeqCalls, host |-> FALSE, endless |-> FALSE]

\* Callers that await each call and pass keys of every kind: a number, its
\* string form, a string with the key/value delimiter, a key that is neither a
\* string nor a number
KeyCallers ==
    [keys |-> {Num(<<"1">>), Str(<<"1">>), Str(<<"1", ":", "2">>), Other},
     values |-> {Num(<<"2">>), Str(<<"1">>)},
     procs |-> 2, parallel |-> 1, calls |-> MaxSeqCalls, host |-> FALSE, endless |-> FALSE]

\* The message handler of service.js as the caller: it does not wait for one
\* request to be answered before it takes the next
HostCallers ==
    [keys |-> {Str(<<"a">>), Other}, values |-> {Num(<<"1">>)},
     procs |-> MaxProcs, parallel |-> 2, calls |-> MaxSeqCalls, host |-> TRUE, endless |-> FALSE]

\* A caller that never stops: it awaits each call and calls again when the
\* call returns, beside the timer
EndlessCallers ==
    [keys |-> {Str(<<"a">>)}, values |-> {Num(<<"1">>)},
     procs |-> 2, parallel |-> 1, calls |-> MaxSeqCalls, host |-> FALSE, endless |-> TRUE]

\* ------------------------------------------------------------- state

VARIABLES
    ready,       \* this.ready
    hasNewData,  \* this.hasNewData
    data,        \* this.data
    cache,       \* this.cache
    logFile,     \* the content of dbPath/0001.log
    otherFiles,  \* the contents of the other files of dbPath, in listing order
    stage,       \* "init": _init is reading; "run": timer started; "exit": process.exit
    procs,       \* the calls in progress
    micro,       \* the microtask queue: calls resuming after `await this._waitReadiness()`
    immq,        \* the setImmediate queue: calls polling in _waitReadiness
    callerRan,   \* code of a caller has run in the current turn of the event loop
    last,        \* what the call that completed last returned
    mutated,     \* history: a set or delete has been applied since startup
    unhandled,   \* history: a promise was rejected with no handler attached
    outbox,      \* history: the messages the host has sent to the outcome queue
    calls,       \* history: the number of calls callers have made
    env          \* the callers of this run: their keys and values, how many calls

vars == <<ready, hasNewData, data, cache, logFile, otherFiles, stage, procs, micro, immq,
          callerRan, last, mutated, unhandled, outbox, calls, env>>

\* the slots of the calls in progress
Procs == DOMAIN procs

NoKey == Str(<<>>)
NoValue == [t |-> "none", s |-> <<>>]

\* a slot with no call in it
IdleProc ==
    [pc |-> "idle", op |-> "none", key |-> NoKey, value |-> NoValue, src |-> "none",
     live |-> FALSE, recs |-> <<>>, buf |-> <<>>, append |-> FALSE, behind |-> {},
     before |-> <<>>, overlapped |-> FALSE]

\* What a call returned, with the call (its method and the key passed): a
\* {key: value} pair, null, true, a count, undefined, or an error thrown
Ret(op, arg, kind, key, value, n) ==
    [op |-> op, arg |-> arg, kind |-> kind, key |-> key, value |-> value, n |-> n]
RetPair(op, arg, key, value) == Ret(op, arg, "pair", key, value, 0)
RetNull(op, arg) == Ret(op, arg, "null", <<>>, NoValue, 0)
RetTrue(op, arg) == Ret(op, arg, "true", <<>>, NoValue, 0)
RetCount(op, n) == Ret(op, NoKey, "count", <<>>, NoValue, n)
RetVoid(op) == Ret(op, NoKey, "void", <<>>, NoValue, 0)
RetError(op, arg) == Ret(op, arg, "error", <<>>, NoValue, 0)

\* -------------------------------------------------- Database helpers

\* Database._getRecordIndex, counted from 1: 0 when there is no such record
_getRecordIndex(key, collection) ==
    IF \E i \in 1..Len(collection) : collection[i].key = key
    THEN CHOOSE i \in 1..Len(collection) :
            collection[i].key = key /\ \A j \in 1..(i - 1) : collection[j].key # key
    ELSE 0

\* Database._findRecord: the index of the first record found, 0 for undefined
_findRecord(key, collection) == _getRecordIndex(key, collection)

\* Database._normalizeKey does not throw
KeyAccepted(key) == key.t \in {"str", "num"} /\ ~Includes(StringOf(key), delimeterKeyValue)

\* Database._normalizeKey, for a key it accepts
_normalizeKey(key) == StringOf(key)

\* collection.splice(i, 1)
Splice(collection, i) == SubSeq(collection, 1, i - 1) \o SubSeq(collection, i + 1, Len(collection))

\* Database._removeDoc throws: it normalizes the key only for a non-empty collection
RemoveDocThrows(key, collection) == collection # <<>> /\ ~KeyAccepted(key)

\* Database._removeDoc, when it does not throw
_removeDoc(key, collection) ==
    IF collection = <<>> THEN collection
    ELSE LET docIdx == _getRecordIndex(_normalizeKey(key), collection) IN
         IF docIdx > 0 THEN Splice(collection, docIdx) ELSE collection

\* data.flatMap(this._parseLogFile) over the files read
RECURSIVE FlatMapParse(_)
FlatMapParse(texts) ==
    IF texts = <<>> THEN <<>> ELSE _parseLogFile(Head(texts)) \o FlatMapParse(Tail(texts))

\* the committed set startup recovery builds from a directory
Recover(log, others) == FlatMapParse(<<log>> \o others)

\* ------------------------------------------------------------- calls

\* the calls whose log file write is in flight
Writing == {q \in Procs : procs[q].pc = "write"}

\* the slot a new call takes
FreeProc == CHOOSE p \in Procs : procs[p].pc = "idle" /\ \A q \in 1..(p - 1) : procs[q].pc # "idle"

\* The synchronous part of a public method, up to its first await: the call
\* runs _waitReadiness, which returns at once when ready is true (the caller
\* then resumes from the microtask queue) and schedules a setImmediate
\* otherwise.  flushAll has by then evaluated this.data, the argument of
\* _flush: the call holds a reference to that array (live).  History: the
\* writes in flight at the call (behind), for flushAll the records in memory
\* at the call (before), and whether another flushAll has completed while
\* this one was in progress (overlapped).
Invoke(op, key, value, src) ==
    /\ \E p \in Procs : procs[p].pc = "idle"
    /\ procs' = [procs EXCEPT ![FreeProc] =
                    [pc |-> IF ready THEN "gate" ELSE "poll", op |-> op, key |-> key,
                     value |-> value, src |-> src, live |-> (op = "flushAll"),
                     recs |-> <<>>, buf |-> <<>>, append |-> FALSE, behind |-> Writing,
                     before |-> IF op = "flushAll" THEN data \o cache ELSE <<>>,
                     overlapped |-> FALSE]]
    /\ micro' = IF ready THEN Append(micro, FreeProc) ELSE micro
    /\ immq' = IF ready THEN immq ELSE Append(immq, FreeProc)

\* this.data is assigned a new array: a call that holds a reference to the
\* old array keeps the old array, with what it held
Freeze(ps, old) ==
    [q \in Procs |-> IF ps[q].live THEN [ps[q] EXCEPT !.live = FALSE, !.recs = old] ELSE ps[q]]

\* the call in slot p has returned (and is no longer a flush others wait behind)
Returned(p) ==
    [q \in Procs |-> IF q = p THEN IdleProc ELSE [procs[q] EXCEPT !.behind = @ \ {p}]]

\* the flushAll in slot p has resolved: the flushAll invocations still in
\* progress have overlapped one that completed
Completed(p) ==
    [q \in Procs |-> IF q = p THEN IdleProc
                     ELSE [procs[q] EXCEPT !.behind = @ \ {p},
                                           !.overlapped = @ \/ procs[q].op = "flushAll"]]

\* what Database.count returns
CountNow == Len(data) + Len(cache)

\* Database.count, after the gate
count(p) ==
    /\ last' = RetCount("count", CountNow)
    /\ procs' = Returned(p)
    /\ UNCHANGED <<ready, hasNewData, data, cache, mutated, unhandled>>

\* Database.set without the two look-ups: the record always goes to the end
\* of cache
setAlwaysPushes(p) ==
    LET key == procs[p].key
        value == procs[p].value
    IN  IF ~KeyAccepted(key)
        THEN /\ last' = RetError("set", key)
             /\ procs' = Returned(p)
             /\ UNCHANGED <<ready, hasNewData, data, cache, mutated, unhandled>>
        ELSE /\ cache' = Append(cache, Rec(_normalizeKey(key), value))
             /\ data' = data
             /\ hasNewData' = TRUE
             /\ mutated' = TRUE
             /\ last' = RetPair("set", key, _normalizeKey(key), value)
             /\ procs' = Returned(p)
             /\ UNCHANGED <<ready, unhandled>>

\* Database.set, after the gate
set(p) ==
    LET key == procs[p].key
        value == procs[p].value
    IN  IF ~KeyAccepted(key)
        THEN /\ last' = RetError("set", key)
             /\ procs' = Returned(p)
             /\ UNCHANGED <<ready, hasNewData, data, cache, mutated, unhandled>>
        ELSE LET _key == _normalizeKey(key)
                 doc == Rec(_key, value)
                 cacheIdx == _getRecordIndex(_key, cache)
                 dataIdx == _getRecordIndex(_key, data)
             IN  /\ IF cacheIdx # 0
                    THEN cache' = [cache EXCEPT ![cacheIdx] = doc] /\ data' = data
                    ELSE IF dataIdx # 0
                    THEN data' = [data EXCEPT ![dataIdx] = doc] /\ cache' = cache
                    ELSE cache' = Append(cache, doc) /\ data' = data
                 /\ hasNewData' = TRUE
                 /\ mutated' = TRUE
                 /\ last' = RetPair("set", key, _key, value)
                 /\ procs' = Returned(p)
                 /\ UNCHANGED <<ready, unhandled>>

\* Database.get, after the gate
get(p) ==
    LET key == procs[p].key IN
    /\ IF ~KeyAccepted(key)
       THEN last' = RetError("get", key)
       ELSE LET _key == _normalizeKey(key)
                cacheIdx == _findRecord(_key, cache)
                dataIdx == _findRecord(_key, data)
            IN  IF cacheIdx # 0
                THEN last' = RetPair("get", key, cache[cacheIdx].key, deSerialize(cache[cacheIdx].value))
                ELSE IF dataIdx # 0
                THEN last' = RetPair("get", key, data[dataIdx].key, deSerialize(data[dataIdx].value))
                ELSE last' = RetNull("get", key)
    /\ procs' = Returned(p)
    /\ UNCHANGED <<ready, hasNewData, data, cache, mutated, unhandled>>

\* Database.delete, after the gate
delete(p) ==
    LET key == procs[p].key IN
    IF RemoveDocThrows(key, cache) \/ RemoveDocThrows(key, data)
    THEN /\ last' = RetError("delete", key)
         /\ procs' = Returned(p)
         /\ UNCHANGED <<ready, hasNewData, data, cache, mutated, unhandled>>
    ELSE /\ cache' = _removeDoc(key, cache)
         /\ data' = _removeDoc(key, data)
         /\ hasNewData' = TRUE
         /\ mutated' = TRUE
         /\ last' = RetTrue("delete", key)
         \* [...collection] is a new array, unless the collection was empty
         /\ procs' = IF data = <<>> THEN Returned(p) ELSE Freeze(Returned(p), data)
         /\ UNCHANGED <<ready, unhandled>>

\* Database._flush after the gate, up to its write: ready is cleared without
\* being read again, the data is formatted and the write starts (recs: the
\* records formatted)
_flush(p, collection, append) ==
    /\ ready' = FALSE
    /\ procs' = [procs EXCEPT ![p] =
                    [@ EXCEPT !.pc = "write", !.buf = _prepareDataForFlush(collection),
                              !.append = append, !.live = FALSE, !.recs = collection]]

\* Database.flushAll -> _flushData -> _flush(this.data, false), after the gate
_flushData(p) ==
    /\ _flush(p, IF procs[p].live THEN data ELSE procs[p].recs, FALSE)
    /\ UNCHANGED <<hasNewData, data, cache, last, mutated, unhandled>>

\* what a call does once _waitReadiness has returned
Continue(p) ==
    \/ procs[p].op = "count" /\ count(p)
    \/ procs[p].op = "set" /\ set(p)
    \/ procs[p].op = "get" /\ get(p)
    \/ procs[p].op = "delete" /\ delete(p)
    \/ procs[p].op = "flushAll" /\ _flushData(p)

\* -------------------------------------------------------- event loop

\* A caller can make one more call.  Its code runs at the start of a turn of
\* the event loop (no microtask is left from the turn before) or later in a
\* turn in which it has already run: in the synchronous code that made the
\* call before, or in a microtask of its own.  In the turn of a timer, of a
\* signal or of a callback of the engine it runs only once a call of its own
\* has returned.
\* the count of the calls made, after one more call (callers that never stop
\* are not counted)
Counted == IF env.endless THEN calls ELSE calls + 1

CanCall ==
    /\ stage # "exit"
    /\ micro = <<>> \/ callerRan
    /\ env.endless \/ calls < env.calls
    /\ Cardinality({p \in Procs : procs[p].src = "api"}) < env.parallel

\* A caller invokes a public method.  Callers are any code of the process:
\* the message handler of service.js (count, get, set, delete) and direct
\* callers of the class; a call is invoked from running code, so it can
\* follow another call in the same tick, before the microtasks run.
CallCount ==
    /\ CanCall
    /\ callerRan' = TRUE
    /\ calls' = Counted
    /\ Invoke("count", NoKey, NoValue, "api")
    /\ UNCHANGED <<ready, hasNewData, data, cache, logFile, otherFiles, stage, last, mutated, unhandled, outbox, env>>

CallGet ==
    /\ CanCall
    /\ callerRan' = TRUE
    /\ calls' = Counted
    /\ \E key \in env.keys : Invoke("get", key, NoValue, "api")
    /\ UNCHANGED <<ready, hasNewData, data, cache, logFile, otherFiles, stage, last, mutated, unhandled, outbox, env>>

CallSet ==
    /\ CanCall
    /\ callerRan' = TRUE
    /\ calls' = Counted
    /\ \E key \in env.keys, value \in env.values : Invoke("set", key, value, "api")
    /\ UNCHANGED <<ready, hasNewData, data, cache, logFile, otherFiles, stage, last, mutated, unhandled, outbox, env>>

CallDelete ==
    /\ CanCall
    /\ callerRan' = TRUE
    /\ calls' = Counted
    /\ \E key \in env.keys : Invoke("delete", key, NoValue, "api")
    /\ UNCHANGED <<ready, hasNewData, data, cache, logFile, otherFiles, stage, last, mutated, unhandled, outbox, env>>

CallFlushAll ==
    /\ CanCall
    /\ callerRan' = TRUE
    /\ calls' = Counted
    /\ Invoke("flushAll", NoKey, NoValue, "api")
    /\ UNCHANGED <<ready, hasNewData, data, cache, logFile, otherFiles, stage, last, mutated, unhandled, outbox, env>>

\* when the call in slot p resumes it returns (or throws) to a caller's code
ReturnsToCaller(p) == procs[p].src = "api" /\ procs[p].op # "flushAll"

\* onMessage after `await db[data.method](data.params)`: when the call in slot
\* p resolves the host sends {request, response}; when it rejects, onMessage
\* rejects and nothing is sent
HostSend(p) ==
    IF env.host /\ ReturnsToCaller(p) /\ last'.kind # "error"
    THEN Append(outbox, "response")
    ELSE outbox

\* onMessage for a request no call of the engine comes of.  validate answers
\* a request without id or method, or with a method other than count, get,
\* set and delete, with {request, error}.  A get, set or delete request
\* without params makes the method throw while it destructures its argument:
\* onMessage rejects and nothing is sent.
Message ==
    /\ env.host
    /\ CanCall
    /\ callerRan' = TRUE
    /\ calls' = Counted
    /\ \E request \in {"invalid", "unknown method", "no params"} :
          outbox' = IF request = "no params" THEN outbox ELSE Append(outbox, "error")
    /\ UNCHANGED <<ready, hasNewData, data, cache, logFile, otherFiles, stage, procs, micro,
                   immq, last, mutated, unhandled, env>>

\* The next microtask: the call that passed `await this._waitReadiness()`
\* first resumes.  It does not look at ready again.
Microtask ==
    /\ stage # "exit"
    /\ micro # <<>>
    /\ Continue(Head(micro))
    /\ micro' = Tail(micro)
    /\ outbox' = HostSend(Head(micro))
    /\ UNCHANGED <<logFile, otherFiles, stage, immq, callerRan, calls, env>>

\* A setImmediate callback of _waitReadiness, run by the event loop once the
\* microtasks are done: the loop reads ready again; when it is true the call
\* resumes within the same turn, otherwise it schedules itself again.
Immediate ==
    /\ stage # "exit"
    /\ micro = <<>>
    /\ immq # <<>>
    /\ ready
    /\ Continue(Head(immq))
    /\ immq' = Tail(immq)
    /\ callerRan' = ReturnsToCaller(Head(immq))
    /\ outbox' = HostSend(Head(immq))
    /\ UNCHANGED <<logFile, otherFiles, stage, micro, calls, env>>

\* process.exit(0): the calls in progress and the callbacks queued are gone
Exit ==
    /\ stage' = "exit"
    /\ procs' = [q \in Procs |-> IdleProc]
    /\ micro' = <<>>
    /\ immq' = <<>>

\* fs.writeFile calls back with success, for the write of the call in slot p.
\* After the compaction write, _flush sets ready, flushAll goes on to
\* _flushCache, whose _flush finds ready true and clears it again: all in the
\* microtasks of this one callback.  After the append write, _flush sets
\* ready and _flushCache moves cache into data; flushAll resolves, and the
\* exit handler's continuation ends the process.
WriteOk(p) ==
    /\ stage # "exit"
    /\ micro = <<>>
    /\ procs[p].pc = "write"
    /\ IF ~procs[p].append
       THEN /\ logFile' = procs[p].buf
            /\ _flush(p, cache, TRUE)
            /\ callerRan' = FALSE
            /\ UNCHANGED <<hasNewData, data, cache, stage, last, mutated, unhandled, outbox, micro, immq>>
       ELSE /\ logFile' = logFile \o procs[p].buf
            /\ ready' = TRUE
            /\ data' = data \o cache
            /\ cache' = <<>>
            /\ last' = RetVoid("flushAll")
            /\ callerRan' = (procs[p].src = "api")
            /\ IF procs[p].src = "exit"
               THEN Exit
               ELSE /\ procs' = Freeze(Completed(p), data)
                    /\ UNCHANGED <<stage, micro, immq>>
            /\ UNCHANGED <<hasNewData, mutated, unhandled, outbox>>
    /\ UNCHANGED <<otherFiles, calls, env>>

\* fs.writeFile calls back with an error: _writeLogFile logs and rethrows,
\* _flush never reaches `this.ready = true`, flushAll rejects.  A failed
\* truncating write may have emptied the file.  The timer callback drops the
\* promise of flushAll and the exit handler attaches a .then only: their
\* rejection has no handler (node 12 warns and goes on).
WriteFail(p) ==
    /\ stage # "exit"
    /\ micro = <<>>
    /\ procs[p].pc = "write"
    /\ logFile' \in {logFile} \cup (IF procs[p].append THEN {} ELSE {<<>>})
    /\ procs' = Returned(p)
    /\ last' = RetError("flushAll", NoKey)
    /\ callerRan' = (procs[p].src = "api")
    /\ unhandled' = (unhandled \/ procs[p].src # "api")
    /\ UNCHANGED <<ready, hasNewData, data, cache, otherFiles, stage, micro, immq, mutated,
                   outbox, calls, env>>

\* the setInterval callback without `this.hasNewData = false`
TickKeepsFlag ==
    /\ stage = "run"
    /\ micro = <<>>
    /\ ~(ready /\ immq # <<>>)
    /\ hasNewData
    /\ Invoke("flushAll", NoKey, NoValue, "timer")
    /\ callerRan' = FALSE
    /\ UNCHANGED <<ready, hasNewData, data, cache, logFile, otherFiles, stage, last, mutated, unhandled, outbox,
                   calls, env>>

\* The setInterval callback of _init.  Timers run at the start of a turn of
\* the event loop, after the setImmediate callbacks of the turn before: a
\* call that polls and finds ready true resumes before the next timer.
Tick ==
    /\ stage = "run"
    /\ micro = <<>>
    /\ ~(ready /\ immq # <<>>)
    /\ hasNewData
    /\ hasNewData' = FALSE
    /\ Invoke("flushAll", NoKey, NoValue, "timer")
    /\ callerRan' = FALSE
    /\ UNCHANGED <<ready, data, cache, logFile, otherFiles, stage, last, mutated, unhandled, outbox, calls, env>>

\* exitHandler of service.js, on SIGINT or SIGTERM
exitHandler ==
    /\ stage # "exit"
    /\ micro = <<>>
    /\ IF ~hasNewData
       THEN Exit
       ELSE /\ Invoke("flushAll", NoKey, NoValue, "exit")
            /\ UNCHANGED stage
    /\ callerRan' = FALSE
    /\ UNCHANGED <<ready, hasNewData, data, cache, logFile, otherFiles, last, mutated, unhandled, outbox, calls, env>>

\* the first .then of _init, once every file has been read
InitDone ==
    /\ stage = "init"
    /\ micro = <<>>
    /\ data' = Recover(logFile, otherFiles)
    /\ ready' = TRUE
    /\ stage' = "run"
    /\ procs' = Freeze(procs, data)
    /\ callerRan' = FALSE
    /\ UNCHANGED <<hasNewData, cache, logFile, otherFiles, micro, immq, last, mutated, unhandled, outbox, calls, env>>

\* the constructor, before _init has read anything, for the given callers
Start(callers) ==
    /\ ready = FALSE
    /\ hasNewData = FALSE
    /\ data = <<>>
    /\ cache = <<>>
    /\ \E dir \in InitDirs : logFile = dir.log /\ otherFiles = dir.others
    /\ stage = "init"
    /\ procs = [p \in 1..callers.procs |-> IdleProc]
    /\ micro = <<>>
    /\ immq = <<>>
    /\ callerRan = FALSE
    /\ last = RetVoid("none")
    /\ mutated = FALSE
    /\ unhandled = FALSE
    /\ outbox = <<>>
    /\ calls = 0
    /\ env = callers

Init == Start(OverlappingCallers)

Next ==
    \/ CallCount
    \/ CallGet
    \/ CallSet
    \/ CallDelete
    \/ CallFlushAll
    \/ Microtask
    \/ Immediate
    \/ \E p \in Procs : WriteOk(p)
    \/ \E p \in Procs : WriteFail(p)
    \/ Tick
    \/ exitHandler
    \/ InitDone

\* the engine and its host, with callers whose calls overlap
Spec == Init /\ [][Next]_vars

\* the engine and its host, with a caller that awaits each call
InitAwaiting == Start(AwaitingCallers)
SpecAwaiting == InitAwaiting /\ [][Next]_vars

\* the same callers, over a storage directory that holds the log file only
InitOwnLog == Start(AwaitingCallers) /\ otherFiles = <<>>
SpecOwnLog == InitOwnLog /\ [][Next]_vars

\* the engine behind the message handler of service.js, which offers count,
\* get, set and delete
NextHost ==
    \/ Message
    \/ CallCount
    \/ CallGet
    \/ CallSet
    \/ CallDelete
    \/ Microtask
    \/ Immediate
    \/ \E p \in Procs : WriteOk(p)
    \/ \E p \in Procs : WriteFail(p)
    \/ Tick
    \/ exitHandler
    \/ InitDone

InitHost == Start(HostCallers)
SpecHost == InitHost /\ [][NextHost]_vars

\* the engine and its host, with a caller that passes keys of every kind
InitKeys == Start(KeyCallers)
SpecKeys == InitKeys /\ [][Next]_vars

\* The engine while the process lives and the disk works: no signal arrives
\* and every write succeeds.  The event loop runs every callback that is
\* queued (microtasks, setImmediate callbacks, the completion of a write),
\* and the interval timer keeps firing.
NextDurable ==
    \/ CallCount
    \/ CallGet
    \/ CallSet
    \/ CallDelete
    \/ CallFlushAll
    \/ Microtask
    \/ Immediate
    \/ \E p \in Procs : WriteOk(p)
    \/ Tick
    \/ InitDone

FairLoop ==
    /\ WF_vars(Microtask)
    /\ WF_vars(Immediate)
    /\ WF_vars(\E p \in Procs : WriteOk(p))
    /\ WF_vars(Tick)

SpecDurable == InitOwnLog /\ [][NextDurable]_vars /\ FairLoop

\* The same engine with a caller that never stops.  The event loop runs the
\* microtasks, every write completes, and a gate that stays open while a call
\* polls is seen by that call: its setImmediate callback runs in the next
\* check phase (the code of callers ends its turn).
InitLive == Start(EndlessCallers)

GateFair == ([]<>~(ready /\ immq # <<>>)) \/ []<><<Immediate>>_vars

FairLive ==
    /\ WF_vars(Microtask)
    /\ GateFair
    /\ \A p \in 1..MaxProcs : WF_vars(p \in Procs /\ WriteOk(p))

SpecLive == InitLive /\ [][NextDurable]_vars /\ FairLive

\* ------------------------------------------------------------ codec runs

\* records the codec is applied to: at most MaxRecs of them, with keys that
\* _normalizeKey accepts (the empty key and a key with the record delimiter
\* among them) and values JSON can represent (the empty string and strings
\* made of a delimiter among them)
MaxRecs == 2
CodecKeys == {<<"a">>, <<"b">>, <<>>, <<"a", ";", ";">>}
CodecValues == {Num(<<"1">>), Str(<<"b">>), Str(<<>>), Str(<<";", ";">>), Str(<<":">>)}
CodecRecs == {Rec(k, v) : k \in CodecKeys, v \in CodecValues}
CodecInputs ==
    UNION {{R \in [1..n -> CodecRecs] : \A i, j \in 1..n : R[i].key = R[j].key => i = j}
              : n \in 0..MaxRecs}

\* A run of the codec alone: data holds the records, logFile receives the text
\* _prepareDataForFlush makes of them, and cache receives the records
\* _parseLogFile makes of that text.
InitCodec ==
    /\ data \in CodecInputs
    /\ \A i \in 1..Len(data) : KeyAccepted(Str(data[i].key))
    /\ cache = <<>>
    /\ logFile = <<>>
    /\ otherFiles = <<>>
    /\ stage = "records"
    /\ ready = FALSE
    /\ hasNewData = FALSE
    /\ procs = <<IdleProc>>
    /\ micro = <<>>
    /\ immq = <<>>
    /\ callerRan = FALSE
    /\ last = RetVoid("none")
    /\ mutated = FALSE
    /\ unhandled = FALSE
    /\ outbox = <<>>
    /\ calls = 0
    /\ env = AwaitingCallers

Encode ==
    /\ stage = "records"
    /\ logFile' = _prepareDataForFlush(data)
    /\ stage' = "text"
    /\ UNCHANGED <<ready, hasNewData, data, cache, otherFiles, procs, micro, immq,
                   callerRan, last, mutated, unhandled, outbox, calls, env>>

Decode ==
    /\ stage = "text"
    /\ cache' = _parseLogFile(logFile)
    /\ stage' = "parsed"
    /\ UNCHANGED <<ready, hasNewData, data, logFile, otherFiles, procs, micro, immq,
                   callerRan, last, mutated, unhandled, outbox, calls, env>>

NextCodec == Encode \/ Decode

SpecCodec == InitCodec /\ [][NextCodec]_vars

\* ------------------------------------------------------------ claims

\* the records in memory: committed, then pending
Records == data \o cache

\* the keys that have a record in memory
KeysPresent == {Records[i].key : i \in 1..Len(Records)}

\* in this step the call in slot p, a call of method op, returns or throws
Returns(p, op) ==
    /\ procs[p].op = op
    /\ procs[p].pc # "idle"
    /\ procs'[p].pc = "idle"
    /\ stage' = stage

\* C1: once the engine is ready (startup recovery done), no key occurs in more
\* than one record of data and cache taken together.
C1_UniqueKeys ==
    stage = "run" =>
        \A i, j \in 1..Len(Records) : Records[i].key = Records[j].key => i = j

\* C2: read-your-writes: when get(k) returns right after set(k, v) returned,
\* with no other call or flush completing in between, it returns the value v.
C2_ReadYourWrites ==
    [][\A p \in Procs :
        (/\ Returns(p, "get")
         /\ last.op = "set" /\ last.kind = "pair"
         /\ procs[p].key = last.arg)
        => (last'.kind = "pair" /\ last'.key = last.key /\ last'.value = last.value)]_vars

\* C3: delete of a valid key returns true; a get of the same key that returns
\* right after it returns null; a delete of the same key right after it
\* returns true and changes nothing.
C3_DeleteThenGet ==
    [][\A p \in Procs :
        /\ (Returns(p, "delete") /\ KeyAccepted(procs[p].key)) => last'.kind = "true"
        /\ (/\ Returns(p, "get") /\ KeyAccepted(procs[p].key)
            /\ last.op = "delete" /\ last.kind = "true" /\ procs[p].key = last.arg)
           => last'.kind = "null"
        /\ (/\ Returns(p, "delete") /\ KeyAccepted(procs[p].key)
            /\ last.op = "delete" /\ last.kind = "true" /\ procs[p].key = last.arg)
           => (last'.kind = "true" /\ data' = data /\ cache' = cache)]_vars

\* C4: count() returns the number of distinct keys present in data and cache;
\* a set on a key that is present leaves count() unchanged, a set on a new key
\* raises it by one, a delete of a present key lowers it by one.
C4_CountDistinctKeys ==
    [][\A p \in Procs :
        /\ Returns(p, "count") => last'.n = Cardinality(KeysPresent)
        /\ (Returns(p, "set") /\ KeyAccepted(procs[p].key))
           => CountNow' = CountNow
                  + (IF _normalizeKey(procs[p].key) \in KeysPresent THEN 0 ELSE 1)
        /\ (/\ Returns(p, "delete") /\ KeyAccepted(procs[p].key)
            /\ _normalizeKey(procs[p].key) \in KeysPresent)
           => CountNow' = CountNow - 1]_vars

\* in this step the flush cycle of the call in slot p completes successfully:
\* its append write calls back with success
FlushCompletes(p) == WriteOk(p) /\ procs[p].append

\* C5: when flushAll() completes successfully, startup recovery of the storage
\* directory (every file read, parsed, flattened) yields exactly the records
\* that were in committed and pending before the flush, with their values
\* (stated for the flushes during which no record changed in memory, so that
\* "before the flush" is the same set at the call and at the completion).
C5_CompactionCorrect ==
    [][\A p \in Procs :
        (FlushCompletes(p) /\ procs[p].before = data \o cache)
            => Recover(logFile', otherFiles') = procs[p].before]_vars

\* C6: when a flushAll() cycle completes successfully, pending is empty and
\* every record the append phase wrote is in committed, with its key and value.
C6_PendingMigrated ==
    [][\A p \in Procs :
        FlushCompletes(p) =>
            /\ cache' = <<>>
            /\ \A i \in 1..Len(procs[p].recs) :
                   \E j \in 1..Len(data') : data'[j] = procs[p].recs[i]]_vars

\* C7: when the log file write of a flush fails (no other write being in
\* flight), flushAll() throws to its caller and ready is true again.
C7_FailureReleasesGate ==
    [][\A p \in Procs :
        (WriteFail(p) /\ Writing = {p}) => (last'.kind = "error" /\ ready')]_vars

\* C8: at most one log file write is in flight at any time.
C8_OneWriteInFlight == Cardinality(Writing) <= 1

\* C9: a count, get, set or delete is never served before startup recovery
\* has finished, nor while a flush cycle whose write was in flight when the
\* call was made has not completed.
C9_ServedAfterFlush ==
    [][\A p \in Procs :
        (\E op \in {"count", "get", "set", "delete"} : Returns(p, op))
            => (stage # "init" /\ procs[p].behind = {})]_vars

\* C10: the host exits on a termination signal only once no unflushed mutation
\* exists: when a set or delete has been applied since startup, the process
\* has exited only with a log file that holds the records in memory.
C10_ExitAfterFlush ==
    (stage = "exit" /\ mutated) => logFile = _prepareDataForFlush(data \o cache)

\* in this step the call in slot p, a get, set or delete, returns or throws
KeyedCallReturns(p) == \E op \in {"get", "set", "delete"} : Returns(p, op)

\* C11: a get, set or delete with a key that is not a string or number, or
\* whose string form contains ":", fails with the invalid-key error and leaves
\* data, cache and hasNewData as they were, in every state (an empty store
\* included).
C11_InvalidKeyFailsClosed ==
    [][\A p \in Procs :
        (KeyedCallReturns(p) /\ ~KeyAccepted(procs[p].key))
            => /\ last'.kind = "error"
               /\ data' = data
               /\ cache' = cache
               /\ hasNewData' = hasNewData]_vars

\* the keys k1 and k2 are a number and its string form, in either order
SameKeyOtherType(k1, k2) ==
    /\ KeyAccepted(k1) /\ KeyAccepted(k2)
    /\ k1.t # k2.t
    /\ StringOf(k1) = StringOf(k2)

\* C12: a number key n and the string String(n) address the same record: a get
\* with the one right after a set with the other returns the value set, under
\* the key String(n); a set with the one on a record stored with the other
\* leaves count() as it is; a delete with the one removes the record stored
\* with the other; set and get reject a key whose string form contains ":".
C12_NumberKeyIsStringKey ==
    [][\A p \in Procs :
        /\ (Returns(p, "get") /\ last.op = "set" /\ last.kind = "pair"
                /\ SameKeyOtherType(procs[p].key, last.arg))
            => (last'.kind = "pair" /\ last'.key = StringOf(procs[p].key)
                    /\ last'.value = last.value)
        /\ (Returns(p, "set") /\ last.op = "set" /\ last.kind = "pair"
                /\ SameKeyOtherType(procs[p].key, last.arg))
            => (last'.kind = "pair" /\ Len(data') + Len(cache') = CountNow)
        /\ (Returns(p, "delete") /\ last.op = "set" /\ last.kind = "pair"
                /\ SameKeyOtherType(procs[p].key, last.arg))
            => (last'.kind = "true" /\ Len(data') + Len(cache') = CountNow - 1)
        /\ ((Returns(p, "get") \/ Returns(p, "set"))
                /\ procs[p].key.t \in {"str", "num"}
                /\ Includes(StringOf(procs[p].key), delimeterKeyValue))
            => last'.kind = "error"]_vars

\* C13: codec round trip: for records with pairwise distinct keys that
\* _normalizeKey accepts and values JSON can represent,
\* _parseLogFile(_prepareDataForFlush(R)) is R: same keys, values and order.
C13_CodecRoundTrip == stage = "parsed" => cache = data

\* in this step a flush cycle starts in slot p: flushAll is called
FlushStarts(p) == procs[p].pc = "idle" /\ procs'[p].op = "flushAll"

\* C14: hasNewData is true after every set and every delete that completes,
\* and false after the start of every flush cycle, whether the timer, the exit
\* handler or another caller of flushAll starts it.
C14_DirtyFlag ==
    [][\A p \in Procs :
        /\ (Returns(p, "set") /\ last'.kind = "pair") => hasNewData'
        /\ (Returns(p, "delete") /\ last'.kind = "true") => hasNewData'
        /\ FlushStarts(p) => ~hasNewData']_vars

\* C14, as the code has it: hasNewData is true after every set and every
\* delete that completes; the timer callback clears it when it starts a flush
\* cycle; a flushAll called by anyone else (the exit handler, a direct caller)
\* leaves it as it is.
C14_DirtyFlagTimer ==
    [][\A p \in Procs :
        /\ (Returns(p, "set") /\ last'.kind = "pair") => hasNewData'
        /\ (Returns(p, "delete") /\ last'.kind = "true") => hasNewData'
        /\ (FlushStarts(p) /\ procs'[p].src = "timer") => ~hasNewData'
        /\ (FlushStarts(p) /\ procs'[p].src # "timer") => hasNewData' = hasNewData]_vars

\* a flushAll has completed after a set or delete, the log file holds the
\* records in memory, and hasNewData is still true
C14_FlagLeftSet ==
    /\ stage = "run"
    /\ mutated
    /\ last.op = "flushAll" /\ last.kind = "void"
    /\ cache = <<>> /\ logFile = _prepareDataForFlush(data)
    /\ hasNewData

\* C15: when the write of a flush the timer started fails, the failure is
\* caught by the timer's call (no rejection is left without a handler), and
\* the gate is open again for the flush of a later tick.
C15_TimerFailureHandled ==
    [][\A p \in Procs :
        (WriteFail(p) /\ procs[p].src = "timer")
            => (~unhandled' /\ (Writing = {p} => ready'))]_vars

\* in this step the host takes a request that no call of the engine comes of
RequestWithoutCall == calls' = calls + 1 /\ procs' = procs

\* C16: every request the host handles produces exactly one outbound message:
\* {request, error} when validation fails, and otherwise {request, response}
\* or {request, error} with the result or the error of the engine call, an
\* invalid key and missing params included.
C16_OneMessagePerRequest ==
    [][/\ \A p \in Procs :
            (ReturnsToCaller(p) /\ procs[p].pc # "idle" /\ procs'[p].pc = "idle"
                /\ stage' = stage)
                => outbox' = Append(outbox, IF last'.kind = "error" THEN "error"
                                                                    ELSE "response")
       /\ RequestWithoutCall => outbox' = Append(outbox, "error")]_vars

\* the collection after is the collection before with doc written over one
\* record of doc's key, every other position as it was
OverwrittenIn(before, after, doc) ==
    /\ Len(after) = Len(before)
    /\ \A i \in 1..Len(before) :
          after[i] = before[i] \/ (before[i].key = doc.key /\ after[i] = doc)
    /\ \E i \in 1..Len(before) : before[i].key = doc.key /\ after[i] = doc

\* the collection holds a record of the key
HasKey(collection, key) == \E i \in 1..Len(collection) : collection[i].key = key

\* C17: a set that completes places its record by a fixed rule: over the
\* record of the key in cache when there is one; otherwise over the record of
\* the key in data, cache unchanged; otherwise at the end of cache, data
\* unchanged.  Every other record keeps its value and its position.
C17_SetFrame ==
    [][\A p \in Procs :
        (Returns(p, "set") /\ KeyAccepted(procs[p].key))
            => LET doc == Rec(StringOf(procs[p].key), procs[p].value) IN
               IF HasKey(cache, doc.key)
               THEN OverwrittenIn(cache, cache', doc) /\ data' = data
               ELSE IF HasKey(data, doc.key)
               THEN OverwrittenIn(data, data', doc) /\ cache' = cache
               ELSE cache' = Append(cache, doc) /\ data' = data]_vars

\* a set has just written a new value over a record of data, cache is empty
C17_OverwrittenInData ==
    /\ stage = "run"
    /\ last.op = "set" /\ last.kind = "pair"
    /\ last.value # Num(<<"1">>)
    /\ cache = <<>>
    /\ \E i \in 1..Len(data) : data[i] = Rec(last.key, last.value)
    /\ logFile = _prepareDataForFlush(<<Rec(last.key, Num(<<"1">>))>>)

\* the log file decodes to the records in memory, all of them committed
Durable == cache = <<>> /\ Recover(logFile, otherFiles) = data

\* C18: once a set or delete has completed, if the timer keeps ticking, every
\* write succeeds and the mutations come to an end, then from some point on
\* the log file decodes to exactly the records in memory, with cache empty.
C18_EventuallyDurable == <>[](mutated => Durable)

\* a flushAll() invocation has been made and has neither resolved nor rejected
FlushInProgress == \E p \in Procs : procs[p].op = "flushAll" /\ procs[p].pc # "idle"

\* C19: after startup from a directory holding only the engine's own log,
\* whenever hasNewData is false and no flush cycle is in progress, cache is
\* empty and the log file decodes to exactly data (exitHandler exits at once
\* on a false flag, so nothing is lost by exiting then).
C19_FlagSound ==
    (stage = "run" /\ ~hasNewData /\ ~FlushInProgress) => Durable

\* the records of a collection carry pairwise different keys
NoKeyTwice(collection) ==
    \A i, j \in 1..Len(collection) : collection[i].key = collection[j].key => i = j

\* C20: when two flushAll() invocations overlap and both have completed (the
\* later one completes having seen the other complete, and no flush is left
\* in progress), the log file decodes to exactly data, no key is in the log
\* twice, and cache is empty.
C20_OverlapSafe ==
    [][\A p \in Procs :
          (FlushCompletes(p) /\ procs[p].overlapped /\ ~FlushInProgress')
              => /\ cache' = <<>>
                 /\ Recover(logFile', otherFiles') = data'
                 /\ NoKeyTwice(_parseLogFile(logFile'))]_vars

\* the call in slot p has been issued and has not returned, startup being over
Waits(p) == p \in Procs /\ stage = "run" /\ procs[p].pc # "idle"

\* C21: once startup recovery has completed, and with every write completing
\* successfully, every count, get, set, delete and flushAll call that has
\* been issued eventually passes the gate and returns, timer flushes
\* included.
C21_NoCallWaitsForever ==
    \A p \in 1..MaxProcs : [](Waits(p) => <>(p \in Procs => procs[p].pc = "idle"))

====
